---- MODULE Spec2Model ----
(***************************************************************************)
(* SqliteStorage (lib/storage.js): the message / parent-reference / entity *)
(* relations, the statements each handler issues to the sqlite3 driver,    *)
(* the driver's statement scheduling (serialized and parallel mode), the   *)
(* hash-list codec and the cursor pagination of query().                   *)
(***************************************************************************)
EXTENDS Integers, Sequences, FiniteSets, TLC

\* ------------------------------------------------------------------ bounds
MaxHeight == 1
MaxLimit == 2
MaxCalls == 3
MaxFailures == 1

\* program constant: the codec's length-prefix limit (0xff)
MaxHashLen == 255

\* ------------------------------------------------------------------ values
Channels == {"A", "B"}
\* three one-byte hashes, in BLOB order <<1>> < <<2>> < <<3>>
Hashes == {<<1>>, <<2>>, <<3>>}
\* a hash of 256 bytes, one more than the codec can encode
BigHash == [i \in 1..(MaxHashLen + 1) |-> 0]
Heights == 0..MaxHeight
DataBlobs == {"d1"}
Prefixes == {"identity"}
Ids == {"k1"}
EntityBlobs == {"e1"}
Undefined == "undefined"

\* parent lists of the messages handed to addMessage: at most one parent,
\* a stored-size hash or the oversized one
ParentLists == {<<>>} \cup {<<h>> : h \in Hashes \cup {BigHash}}

\* the messages the callers hand over: content-addressed, so no message
\* lists its own hash among its parents
Messages ==
    {m \in [channelId : Channels, hash : Hashes, parents : ParentLists,
             height : Heights, data : DataBlobs] :
        \A i \in DOMAIN m.parents : m.parents[i] # m.hash}

Min(a, b) == IF a < b THEN a ELSE b
Max(a, b) == IF a > b THEN a ELSE b

\* SQLite BLOB comparison: memcmp over the common prefix, then the length.
RECURSIVE BlobLess(_, _)
BlobLess(a, b) ==
    IF a = <<>> THEN b # <<>>
    ELSE IF b = <<>> THEN FALSE
    ELSE IF Head(a) # Head(b) THEN Head(a) < Head(b)
    ELSE BlobLess(Tail(a), Tail(b))

BlobLeq(a, b) == a = b \/ BlobLess(a, b)

\* ------------------------------------------------------------------- codec
encodeThrows(list) == \E i \in DOMAIN list : Len(list[i]) > MaxHashLen

\* an encoder that writes no record for an empty element
RECURSIVE encodeHashListSkipEmpty(_)
encodeHashListSkipEmpty(list) ==
    IF list = <<>> THEN <<>>
    ELSE (IF Head(list) = <<>> THEN <<>>
          ELSE <<Len(Head(list)) % 256>> \o Head(list))
         \o encodeHashListSkipEmpty(Tail(list))

RECURSIVE encodeHashList(_)
encodeHashList(list) ==
    IF list = <<>> THEN <<>>
    ELSE <<Len(Head(list)) % 256>> \o Head(list) \o encodeHashList(Tail(list))

\* Buffer.slice clamps its end to the buffer's length.
RECURSIVE decodeFrom(_, _)
decodeFrom(data, offset) ==
    IF offset >= Len(data) THEN <<>>
    ELSE LET len == data[offset + 1]
             from == offset + 1
             hash == SubSeq(data, from + 1, Min(from + len, Len(data)))
         IN  <<hash>> \o decodeFrom(data, from + len)

decodeHashList(data) == decodeFrom(data, 0)

\* ------------------------------------------------------------------- state
VARIABLES
    messages,       \* rows of table messages, PRIMARY KEY(hash)
    parents,        \* rows of table parents, PRIMARY KEY(hash)
    entities,       \* rows of table entities, UNIQUE(prefix, id)
    inTransaction,  \* the connection has an open transaction
    alive,          \* the process has not died of an unhandled 'error' event
    result,         \* what the last awaited call reported to its caller
    queue,          \* the driver's queue of calls not yet started
    running,        \* the statements the driver has started and not finished
    locked,         \* the driver's flag: the started call is exclusive
    calls,          \* the calls issued without awaiting, in issue order
    done,           \* the finished statements of those calls, with their outcome
    pgMode, pgChannel, pgLimit, pgCursor, pgAnchor, pgWindows,
    codecList,      \* the hash list handed to encodeHashList
    codecBlob,      \* the blob handed to decodeHashList
    codecOut        \* the outcome of the last codec call

storeVars == <<messages, parents, entities, inTransaction>>
driverVars == <<queue, running, locked, calls, done>>
pageVars == <<pgMode, pgChannel, pgLimit, pgCursor, pgAnchor, pgWindows>>
codecVars == <<codecList, codecBlob, codecOut>>
vars == <<storeVars, alive, result, driverVars, pageVars, codecVars>>

Db == [messages |-> messages, parents |-> parents, entities |-> entities,
       inTransaction |-> inTransaction]

EmptyDb == [messages |-> {}, parents |-> {}, entities |-> {},
            inTransaction |-> FALSE]

\* ---------------------------------------------------------------- schema
\* a REPLACE that clears the channel's other rows
ReplaceMessageDropsChannel(rows, row) ==
    {r \in rows : r.channel_id # row.channel_id} \cup {row}

\* an INSERT into a table without the primary key
InsertMessageNoKey(rows, row) == rows \cup {row}

\* an INSERT OR IGNORE: the stored row of the same hash stays
InsertOrIgnoreMessage(rows, row) ==
    IF \E r \in rows : r.hash = row.hash THEN rows ELSE rows \cup {row}

\* REPLACE INTO messages: PRIMARY KEY(hash) over the whole table, so the row
\* with the same hash is deleted first, whatever its channel.
ReplaceMessage(rows, row) == {r \in rows : r.hash # row.hash} \cup {row}

\* REPLACE INTO parents: PRIMARY KEY(hash) (and the unique index hash) over
\* the whole table, so the row with the same hash is deleted first, whatever
\* its channel.
ReplaceParent(rows, row) == {r \in rows : r.hash # row.hash} \cup {row}

\* a REPLACE with the unique index on the prefix alone
ReplaceEntityByPrefix(rows, row) == {r \in rows : r.prefix # row.prefix} \cup {row}

\* REPLACE INTO entities: unique index entity_id on (prefix, id).
ReplaceEntity(rows, row) ==
    {r \in rows : ~(r.prefix = row.prefix /\ r.id = row.id)} \cup {row}

MessageRow(m) ==
    [channel_id |-> m.channelId, hash |-> m.hash,
     parent_hashes |-> encodeHashList(m.parents),
     height |-> m.height, blob |-> m.data]

\* ------------------------------------------------------------- statements
NoError == "ok"

Stmt(op, arg, cb) == [op |-> op, arg |-> arg, cb |-> cb]

\* The statements addMessage hands to the driver, in order. The arguments of
\* the message REPLACE are evaluated after BEGIN has been handed over, so an
\* encoding error leaves BEGIN as the only statement.
addMessageStmts(m) ==
    <<Stmt("BEGIN", <<>>, FALSE)>> \o
    (IF encodeThrows(m.parents) THEN <<>>
     ELSE <<Stmt("REPLACE_MESSAGE", MessageRow(m), FALSE)>> \o
          [i \in 1..Len(m.parents) |->
              Stmt("REPLACE_PARENT",
                   [channel_id |-> m.channelId, hash |-> m.parents[i]], FALSE)] \o
          <<Stmt("COMMIT", <<>>, TRUE)>>)

\* a clear that leaves the entities alone
clearStmtsKeepEntities ==
    <<Stmt("DELETE_MESSAGES", <<>>, TRUE),
      Stmt("DELETE_PARENTS", <<>>, TRUE)>>

clearStmts ==
    <<Stmt("DELETE_MESSAGES", <<>>, TRUE),
      Stmt("DELETE_PARENTS", <<>>, TRUE),
      Stmt("DELETE_ENTITIES", <<>>, TRUE)>>

storeEntityStmts(prefix, id, blob) ==
    <<Stmt("REPLACE_ENTITY", [prefix |-> prefix, id |-> id, blob |-> blob], TRUE)>>

removeEntityStmts(prefix, id) ==
    <<Stmt("DELETE_ENTITY", [prefix |-> prefix, id |-> id], TRUE)>>

\* One statement on the connection. fail: the storage fails this statement
\* (I/O error, busy); a failed statement changes nothing.
ExecStmt(s, d, fail) ==
    IF fail THEN [db |-> d, err |-> "SQLITE_IOERR"]
    ELSE IF s.op = "BEGIN" THEN
        IF d.inTransaction THEN [db |-> d, err |-> "SQLITE_ERROR"]
        ELSE [db |-> [d EXCEPT !.inTransaction = TRUE], err |-> NoError]
    ELSE IF s.op = "COMMIT" THEN
        IF ~d.inTransaction THEN [db |-> d, err |-> "SQLITE_ERROR"]
        ELSE [db |-> [d EXCEPT !.inTransaction = FALSE], err |-> NoError]
    ELSE IF s.op = "REPLACE_MESSAGE" THEN
        [db |-> [d EXCEPT !.messages = ReplaceMessage(@, s.arg)], err |-> NoError]
    ELSE IF s.op = "REPLACE_PARENT" THEN
        [db |-> [d EXCEPT !.parents = ReplaceParent(@, s.arg)], err |-> NoError]
    ELSE IF s.op = "DELETE_MESSAGES" THEN
        [db |-> [d EXCEPT !.messages = {}], err |-> NoError]
    ELSE IF s.op = "DELETE_PARENTS" THEN
        [db |-> [d EXCEPT !.parents = {}], err |-> NoError]
    ELSE IF s.op = "DELETE_ENTITIES" THEN
        [db |-> [d EXCEPT !.entities = {}], err |-> NoError]
    ELSE IF s.op = "REPLACE_ENTITY" THEN
        [db |-> [d EXCEPT !.entities = ReplaceEntity(@, s.arg)], err |-> NoError]
    ELSE IF s.op = "DELETE_ENTITY" THEN
        [db |-> [d EXCEPT !.entities =
                    {r \in @ : ~(r.prefix = s.arg.prefix /\ r.id = s.arg.id)}],
         err |-> NoError]
    ELSE [db |-> d, err |-> NoError]

\* A call's statements run one after another on an idle driver (the caller
\* awaited every earlier call). F: the statements the storage fails. A
\* statement issued without a callback reports its error as an 'error' event
\* nobody listens to: the process dies of it unless the embedding program
\* handles uncaught exceptions (survive), and then the driver goes on with
\* the next statement.
RECURSIVE RunFrom(_, _, _, _, _)
RunFrom(stmts, i, F, d, survive) ==
    IF i > Len(stmts) THEN [db |-> d, errs |-> {}, died |-> FALSE]
    ELSE LET r == ExecStmt(stmts[i], d, i \in F)
         IN  IF r.err # NoError /\ ~stmts[i].cb /\ ~survive
             THEN [db |-> r.db, errs |-> {i}, died |-> TRUE]
             ELSE LET rest == RunFrom(stmts, i + 1, F, r.db, survive)
                  IN  [db |-> rest.db,
                       errs |-> (IF r.err # NoError THEN {i} ELSE {}) \cup rest.errs,
                       died |-> rest.died]

RunAll(stmts, F, d, survive) == RunFrom(stmts, 1, F, d, survive)

FailSets(stmts) ==
    {F \in SUBSET (1..Len(stmts)) : Cardinality(F) <= MaxFailures}

\* ------------------------------------------------------------------ reads
getMessageCount(channelId) ==
    Cardinality({r \in messages : r.channel_id = channelId})

getLeafHashes(channelId) ==
    {r.hash : r \in {x \in messages :
        /\ x.channel_id = channelId
        /\ x.hash \notin {p.hash : p \in {y \in parents : y.channel_id = channelId}}}}

hasMessage(channelId, hash) ==
    Cardinality({r \in messages : r.channel_id = channelId /\ r.hash = hash}) # 0

getMessage(channelId, hash) ==
    LET rows == {r \in messages : r.channel_id = channelId /\ r.hash = hash}
    IN  IF rows = {} THEN Undefined ELSE (CHOOSE r \in rows : TRUE).blob

retrieveEntity(prefix, id) ==
    LET rows == {r \in entities : r.prefix = prefix /\ r.id = id}
    IN  IF rows = {} THEN Undefined ELSE (CHOOSE r \in rows : TRUE).blob

getEntityKeys(prefix) == {r.id : r \in {x \in entities : x.prefix = prefix}}

\* an ORDER BY hash ASC
RowBeforeByHash(a, b) == BlobLess(a.hash, b.hash)

\* ORDER BY height ASC, hash ASC
RowBefore(a, b) ==
    a.height < b.height \/ (a.height = b.height /\ BlobLess(a.hash, b.hash))

RECURSIVE OrderAsc(_)
OrderAsc(rows) ==
    IF rows = {} THEN <<>>
    ELSE LET first == CHOOSE r \in rows : \A o \in rows \ {r} : RowBefore(r, o)
         IN  <<first>> \o OrderAsc(rows \ {first})

Reverse(s) == [i \in 1..Len(s) |-> s[Len(s) + 1 - i]]

\* a SELECT without its LIMIT
LimitNone(s, n) == s

\* LIMIT n of an ordered result (n >= 0)
Limit(s, n) == SubSeq(s, 1, Min(n, Len(s)))

getHashesAtOffset(channelId, offset, limit) ==
    LET all == OrderAsc({r \in messages : r.channel_id = channelId})
        rows == SubSeq(all, offset + 1, Min(offset + limit, Len(all)))
    IN  [i \in 1..Len(rows) |-> rows[i].hash]

\* ------------------------------------------------------------------ query
\* An absent hash (null) and a present one.
Null == {}
Some(h) == {h}
The(x) == CHOOSE h \in x : TRUE

HashCursor(h) == [hash |-> Some(h), height |-> 0]
HeightCursor(n) == [hash |-> Null, height |-> n]

Unsupported == "Backwards query by height is not supported"

Abbreviated(rows) ==
    [i \in 1..Len(rows) |->
        [hash |-> rows[i].hash, parents |-> decodeHashList(rows[i].parent_hashes)]]

\* The rows the SELECT of query returns: the WHERE clause, the ORDER BY and
\* LIMIT limit + 1 of each branch, reversed for a backward query.
queryRows(channelId, cursor, isBackward, limit) ==
    LET inChannel == {r \in messages : r.channel_id = channelId}
    IN  IF cursor.hash # Null THEN
            IF isBackward THEN
                Reverse(Limit(Reverse(OrderAsc(
                    {r \in inChannel : BlobLess(r.hash, The(cursor.hash))})),
                    limit + 1))
            ELSE
                Limit(OrderAsc(
                    {r \in inChannel : ~BlobLess(r.hash, The(cursor.hash))}),
                    limit + 1)
        ELSE
            Limit(OrderAsc({r \in inChannel : r.height >= cursor.height}),
                  limit + 1)

query(channelId, cursor, isBackward, limit0) ==
    LET limit == Max(0, limit0)
    IN  IF cursor.hash = Null /\ isBackward THEN
            [error |-> Unsupported, abbreviatedMessages |-> <<>>,
             backwardHash |-> Null, forwardHash |-> Null]
        ELSE
        LET rows == queryRows(channelId, cursor, isBackward, limit)
            all == Abbreviated(rows)
        IN  IF isBackward THEN
                [error |-> NoError,
                 abbreviatedMessages |->
                    IF Len(rows) > limit THEN Tail(all) ELSE all,
                 backwardHash |->
                    IF Len(rows) > limit THEN Some(rows[1].hash) ELSE Null,
                 forwardHash |-> cursor.hash]
            ELSE
                [error |-> NoError,
                 abbreviatedMessages |->
                    IF Len(rows) > limit THEN SubSeq(all, 1, Len(all) - 1) ELSE all,
                 backwardHash |->
                    IF Len(rows) > 0 THEN Some(rows[1].hash) ELSE Null,
                 forwardHash |->
                    IF Len(rows) > limit THEN Some(rows[Len(rows)].hash) ELSE Null]

\* ------------------------------------------------- awaited (sequential) calls
Init ==
    /\ messages = {}
    /\ parents = {}
    /\ entities = {}
    /\ inTransaction = FALSE
    /\ alive = TRUE
    /\ result = "none"
    /\ queue = <<>>
    /\ running = {}
    /\ locked = FALSE
    /\ calls = <<>>
    /\ done = {}
    /\ pgMode = "idle"
    /\ pgChannel = "A"
    /\ pgLimit = 0
    /\ pgCursor = {}
    /\ pgAnchor = {}
    /\ pgWindows = <<>>
    /\ codecList = <<>>
    /\ codecBlob = <<>>
    /\ codecOut = [op |-> "none", error |-> NoError, list |-> <<>>]

Idle == alive /\ queue = <<>> /\ running = {} /\ calls = <<>> /\ pgMode = "idle"

\* The outcome of a call whose statements ran as RunAll reports: the store it
\* leaves, whether the process is still there, and what the caller is told.
Finish(run, reported) ==
    /\ messages' = run.db.messages
    /\ parents' = run.db.parents
    /\ entities' = run.db.entities
    /\ inTransaction' = run.db.inTransaction
    /\ alive' = ~run.died
    /\ result' = IF run.died THEN "none" ELSE reported
    /\ UNCHANGED <<driverVars, pageVars, codecVars>>

\* await addMessage(message), with the statements in F failing
AddMessage(m, F, survive) ==
    /\ Idle
    /\ LET stmts == addMessageStmts(m)
           run == RunAll(stmts, F, Db, survive)
       IN  /\ F \in FailSets(stmts)
           /\ survive \/ RunAll(stmts, F, Db, FALSE).died
           /\ Finish(run,
                     IF encodeThrows(m.parents) THEN "Invalid hash"
                     ELSE IF Len(stmts) \in run.errs THEN "SQLITE_ERROR"
                     ELSE "ok")

\* await clear(): Promise.all over the three DELETEs
Clear(F) ==
    /\ Idle
    /\ LET run == RunAll(clearStmts, F, Db, TRUE)
       IN  /\ F \in FailSets(clearStmts)
           /\ Finish(run, IF run.errs # {} THEN "SQLITE_ERROR" ELSE "ok")

StoreEntity(prefix, id, blob, F) ==
    /\ Idle
    /\ LET stmts == storeEntityStmts(prefix, id, blob)
           run == RunAll(stmts, F, Db, TRUE)
       IN  /\ F \in FailSets(stmts)
           /\ Finish(run, IF run.errs # {} THEN "SQLITE_ERROR" ELSE "ok")

RemoveEntity(prefix, id, F) ==
    /\ Idle
    /\ LET stmts == removeEntityStmts(prefix, id)
           run == RunAll(stmts, F, Db, TRUE)
       IN  /\ F \in FailSets(stmts)
           /\ Finish(run, IF run.errs # {} THEN "SQLITE_ERROR" ELSE "ok")

\* The awaited calls of this specification store messages of height 0; the
\* pagination specification below varies the heights.
StoreMessages == {m \in Messages : m.height = 0}

Next ==
    \/ \E m \in StoreMessages, survive \in BOOLEAN : AddMessage(m, {}, survive)
    \/ Clear({})
    \/ \E p \in Prefixes, i \in Ids, b \in EntityBlobs : StoreEntity(p, i, b, {})
    \/ \E p \in Prefixes, i \in Ids : RemoveEntity(p, i, {})

Spec == Init /\ [][Next]_vars

\* The same calls, with the storage failing statements; the messages are
\* those of one channel.
FailMessages == {m \in StoreMessages : m.channelId = "A"}

NextFail ==
    \/ \E m \in FailMessages, F \in SUBSET (1..4), survive \in BOOLEAN :
          AddMessage(m, F, survive)
    \/ \E F \in SUBSET (1..3) : Clear(F)
    \/ \E p \in Prefixes, i \in Ids, b \in EntityBlobs, F \in SUBSET (1..1) :
          StoreEntity(p, i, b, F)
    \/ \E p \in Prefixes, i \in Ids, F \in SUBSET (1..1) : RemoveEntity(p, i, F)

SpecFail == Init /\ [][NextFail]_vars

\* ------------------------------------------------ the driver's scheduling
\* The sqlite3 driver behind db.run / db.get / db.all / db.serialize: a call
\* is started at once or queued; a call made inside db.serialize(...) is
\* exclusive: it starts only when nothing is running, and nothing starts
\* while it runs.
Driver == [queue |-> queue, running |-> running, locked |-> locked]

\* the entries of one call: its statements, numbered
Entries(cid, stmts) ==
    [i \in 1..Len(stmts) |->
        [cid |-> cid, idx |-> i, op |-> stmts[i].op, arg |-> stmts[i].arg,
         cb |-> stmts[i].cb, exclusive |-> FALSE]]

\* db.run(...) and the like: queue the call when an exclusive call runs, or
\* when this one is serialized and anything runs; start it otherwise.
Schedule(st, entry, serialize) ==
    IF (st.locked \/ serialize) /\ st.running # {}
    THEN [st EXCEPT !.queue = Append(@, [entry EXCEPT !.exclusive = serialize])]
    ELSE [st EXCEPT !.locked = FALSE, !.running = @ \cup {entry}]

RECURSIVE ScheduleAll(_, _, _)
ScheduleAll(st, entries, serialize) ==
    IF entries = <<>> THEN st
    ELSE ScheduleAll(Schedule(st, Head(entries), serialize), Tail(entries), serialize)

\* the driver's loop after a call finished: start queued calls, an exclusive
\* one only alone
RECURSIVE Process(_)
Process(st) ==
    IF (~st.locked \/ st.running = {}) /\ st.queue # <<>> THEN
        LET c == Head(st.queue)
        IN  IF c.exclusive /\ st.running # {} THEN st
            ELSE LET started == [queue |-> Tail(st.queue),
                                 running |-> st.running \cup {c},
                                 locked |-> c.exclusive]
                 IN  IF c.exclusive THEN started ELSE Process(started)
    ELSE st

SetDriver(st) ==
    /\ queue' = st.queue
    /\ running' = st.running
    /\ locked' = st.locked

\* ------------------------------------------------ calls issued unawaited
Finished(cid) ==
    \A i \in 1..Len(calls[cid].stmts) :
        \E d \in done : d.cid = cid /\ d.idx = i

InFlight == {cid \in 1..Len(calls) : ~Finished(cid)}

Quiescent == queue = <<>> /\ running = {}

\* a handler's synchronous part: its statements are handed to the driver in
\* one go, before any other code of the program runs
Issue(op, arg, stmts, serialize) ==
    /\ alive
    /\ pgMode = "idle"
    /\ Len(calls) < MaxCalls
    /\ calls' = Append(calls, [op |-> op, arg |-> arg, stmts |-> stmts,
                                during |-> InFlight, before |-> Db])
    /\ SetDriver(LET st == ScheduleAll(Driver, Entries(Len(calls) + 1, stmts), serialize)
                 IN  IF serialize THEN Process(st) ELSE st)
    /\ UNCHANGED <<storeVars, alive, result, done, pageVars, codecVars>>

\* the unawaited addMessage calls: messages <<1>> and <<2>> of channel A,
\* without parents, citing the other one, or citing the oversized hash
ConcMessages ==
    {m \in StoreMessages :
        /\ m.channelId = "A"
        /\ m.hash \in {<<1>>, <<2>>}
        /\ \A i \in DOMAIN m.parents : m.parents[i] \in {<<1>>, <<2>>, BigHash}}

IssueAddMessage(m) == Issue("addMessage", m, addMessageStmts(m), TRUE)

IssueClear == Issue("clear", <<>>, clearStmts, FALSE)

IssueStoreEntity(prefix, id, blob) ==
    Issue("storeEntity", <<>>, storeEntityStmts(prefix, id, blob), FALSE)

\* any of the reading handlers: one SELECT in parallel mode
IssueRead == Issue("read", <<>>, <<Stmt("SELECT", <<>>, TRUE)>>, FALSE)

Failures == Cardinality({d \in done : d.err = "SQLITE_IOERR"})

\* A running statement executes and its completion is handled: its effect,
\* its outcome, and the driver's loop. A statement without a callback that
\* fails kills the process unless the program survives uncaught exceptions.
Complete(e, fail, survive) ==
    /\ alive
    /\ e \in running
    /\ fail => Failures < MaxFailures
    /\ LET r == ExecStmt(e, Db, fail)
           dies == r.err # NoError /\ ~e.cb /\ ~survive
       IN  /\ survive \/ (r.err # NoError /\ ~e.cb)
           /\ messages' = r.db.messages
           /\ parents' = r.db.parents
           /\ entities' = r.db.entities
           /\ inTransaction' = r.db.inTransaction
           /\ done' = done \cup {[cid |-> e.cid, idx |-> e.idx, op |-> e.op,
                                   err |-> r.err]}
           /\ alive' = ~dies
           /\ IF dies THEN UNCHANGED <<queue, running, locked>>
              ELSE SetDriver(Process([Driver EXCEPT !.running = @ \ {e}]))
    /\ UNCHANGED <<calls, result, pageVars, codecVars>>

NextConc ==
    \/ \E m \in ConcMessages : IssueAddMessage(m)
    \/ IssueClear
    \/ \E p \in Prefixes, i \in Ids, b \in EntityBlobs : IssueStoreEntity(p, i, b)
    \/ IssueRead
    \/ \E e \in running, fail \in BOOLEAN, survive \in BOOLEAN :
          Complete(e, fail, survive)

SpecConc == Init /\ [][NextConc]_vars

\* ------------------------------------------------------ a paginating caller
\* A caller that pages through one channel while nobody writes: the first
\* query, then one query per returned continuation cursor, until the cursor
\* is null. pgWindows holds the returned windows (their hashes) in the order
\* of the channel: a forward caller appends, a backward caller prepends.
MaxWindows == 4

PageMessages == {m \in Messages : m.parents = <<>>}

WindowHashes(r) ==
    [i \in 1..Len(r.abbreviatedMessages) |-> r.abbreviatedMessages[i].hash]

PageAdd(m) ==
    /\ AddMessage(m, {}, TRUE)

StartForward(c, limit) ==
    /\ Idle
    /\ LET r == query(c, HeightCursor(0), FALSE, limit)
       IN  /\ pgMode' = IF r.forwardHash = Null THEN "forwardDone" ELSE "forward"
           /\ pgWindows' = <<WindowHashes(r)>>
           /\ pgCursor' = r.forwardHash
    /\ pgChannel' = c
    /\ pgLimit' = limit
    /\ pgAnchor' = Null
    /\ UNCHANGED <<storeVars, alive, result, driverVars, codecVars>>

StepForward ==
    /\ pgMode = "forward"
    /\ Len(pgWindows) < MaxWindows
    /\ LET r == query(pgChannel, HashCursor(The(pgCursor)), FALSE, pgLimit)
       IN  /\ pgMode' = IF r.forwardHash = Null THEN "forwardDone" ELSE "forward"
           /\ pgWindows' = Append(pgWindows, WindowHashes(r))
           /\ pgCursor' = r.forwardHash
    /\ UNCHANGED <<pgChannel, pgLimit, pgAnchor, storeVars, alive, result, driverVars,
                   codecVars>>

StartBackward(c, a, limit) ==
    /\ Idle
    /\ hasMessage(c, a)
    /\ LET r == query(c, HashCursor(a), TRUE, limit)
       IN  /\ pgMode' = IF r.backwardHash = Null THEN "backwardDone" ELSE "backward"
           /\ pgWindows' = <<WindowHashes(r)>>
           /\ pgCursor' = r.backwardHash
    /\ pgChannel' = c
    /\ pgLimit' = limit
    /\ pgAnchor' = Some(a)
    /\ UNCHANGED <<storeVars, alive, result, driverVars, codecVars>>

StepBackward ==
    /\ pgMode = "backward"
    /\ Len(pgWindows) < MaxWindows
    /\ LET r == query(pgChannel, HashCursor(The(pgCursor)), TRUE, pgLimit)
       IN  /\ pgMode' = IF r.backwardHash = Null THEN "backwardDone" ELSE "backward"
           /\ pgWindows' = <<WindowHashes(r)>> \o pgWindows
           /\ pgCursor' = r.backwardHash
    /\ UNCHANGED <<pgChannel, pgLimit, pgAnchor, storeVars, alive, result, driverVars,
                   codecVars>>

\* the caller is through, or gives up, and the store is written again
PageEnd ==
    /\ pgMode # "idle"
    /\ pgMode' = "idle"
    /\ pgWindows' = <<>>
    /\ pgCursor' = Null
    /\ pgAnchor' = Null
    /\ pgLimit' = 0
    /\ pgChannel' = "A"
    /\ UNCHANGED <<storeVars, alive, result, driverVars, codecVars>>

NextPage ==
    \/ \E m \in PageMessages : PageAdd(m)
    \/ \E c \in Channels, l \in 1..MaxLimit : StartForward(c, l)
    \/ StepForward
    \/ \E c \in Channels, a \in Hashes, l \in 1..MaxLimit : StartBackward(c, a, l)
    \/ StepBackward
    \/ PageEnd

SpecPage == Init /\ [][NextPage]_vars

\* ------------------------------------------- awaited calls, varied content
\* Awaited calls over two hashes whose messages differ in channel, parents
\* and content.
ContentBlobs == {"d1", "d2"}
ContentHashes == {<<1>>, <<2>>}

ContentMessages ==
    {m \in [channelId : Channels, hash : ContentHashes,
             parents : {<<>>} \cup {<<h>> : h \in ContentHashes \cup {BigHash}},
             height : {0}, data : ContentBlobs] :
        \A i \in DOMAIN m.parents : m.parents[i] # m.hash}

NextContent ==
    \/ \E m \in ContentMessages, survive \in BOOLEAN : AddMessage(m, {}, survive)
    \/ Clear({})

SpecContent == Init /\ [][NextContent]_vars

\* ------------------------------------------------------ awaited query calls
\* a query that hands its SELECT to the driver whatever the cursor
queryStmtsUnchecked(cursor, isBackward) == <<Stmt("SELECT", <<>>, TRUE)>>

\* The statements query hands to the driver: the unsupported combination
\* throws before the SELECT is built into a call.
queryStmts(cursor, isBackward) ==
    IF cursor.hash = Null /\ isBackward THEN <<>>
    ELSE <<Stmt("SELECT", <<>>, TRUE)>>

Cursors == {HashCursor(h) : h \in Hashes} \cup {HeightCursor(n) : n \in Heights}

\* await query(channelId, cursor, isBackward, limit): the caller holds the
\* returned window and the two cursors until it goes on
Query(channelId, cursor, isBackward, limit) ==
    /\ Idle
    /\ pgMode' = "query"
    /\ pgChannel' = channelId
    /\ pgLimit' = limit
    /\ LET r == query(channelId, cursor, isBackward, limit)
           run == RunAll(queryStmts(cursor, isBackward), {}, Db, TRUE)
       IN  /\ messages' = run.db.messages
           /\ parents' = run.db.parents
           /\ entities' = run.db.entities
           /\ inTransaction' = run.db.inTransaction
           /\ result' = r.error
           /\ pgWindows' = <<WindowHashes(r)>>
           /\ pgCursor' = r.forwardHash
           /\ pgAnchor' = r.backwardHash
    /\ UNCHANGED <<alive, driverVars, codecVars>>

\* await getHashesAtOffset(channelId, offset, limit): the caller holds the
\* returned hashes until it goes on
MaxOffset == 4

HashesAtOffset(channelId, offset, limit) ==
    /\ Idle
    /\ pgMode' = "offset"
    /\ pgChannel' = channelId
    /\ pgLimit' = limit
    /\ pgWindows' = <<getHashesAtOffset(channelId, offset, limit)>>
    /\ pgCursor' = Null
    /\ pgAnchor' = Null
    /\ UNCHANGED <<storeVars, alive, result, driverVars, codecVars>>

NextQuery ==
    \/ \E m \in PageMessages : PageAdd(m)
    \/ \E c \in Channels, cursor \in Cursors, b \in BOOLEAN, l \in (-1)..MaxLimit :
          Query(c, cursor, b, l)
    \/ \E c \in Channels, o \in 0..MaxOffset, l \in 0..MaxLimit :
          HashesAtOffset(c, o, l)
    \/ PageEnd

SpecQuery == Init /\ [][NextQuery]_vars


\* ------------------------------------------------- awaited entity calls
\* Entity calls over two prefixes, two ids and two blobs, with the storage
\* failing some of them, next to clear and the inserts of one hash in
\* either channel, without parents, citing a hash or citing the oversized
\* one.
EntityPrefixes == {"identity", "channel"}
EntityIds == {"k1", "k2"}
EntityValues == {"e1", "e2"}

EntityMessages ==
    {m \in StoreMessages :
        /\ m.hash = <<1>>
        /\ \A i \in DOMAIN m.parents : m.parents[i] \in {<<2>>, BigHash}}

NextEntity ==
    \/ \E p \in EntityPrefixes, i \in EntityIds, b \in EntityValues, F \in SUBSET (1..1) :
          StoreEntity(p, i, b, F)
    \/ \E p \in EntityPrefixes, i \in EntityIds, F \in SUBSET (1..1) :
          RemoveEntity(p, i, F)
    \/ \E m \in EntityMessages : AddMessage(m, {}, TRUE)
    \/ Clear({})

SpecEntity == Init /\ [][NextEntity]_vars

\* ------------------------------------------------------- the codec's calls
\* encodeHashList and decodeHashList called on their own, and query reading
\* a row whose parent_hashes column holds a given blob (a database file
\* written or damaged outside this program).
MaxElemLen == 1
MaxListLen == 2
MaxBlobLen == 3

ElemBytes == {1, 2}
BlobBytes == {0, 1, 2}

SeqsUpTo(S, n) == UNION {[1..k -> S] : k \in 0..n}

\* a hash of exactly 255 bytes, the longest the codec encodes
LongHash == [i \in 1..MaxHashLen |-> 7]

CodecElems == SeqsUpTo(ElemBytes, MaxElemLen) \cup {LongHash, BigHash}
CodecLists == SeqsUpTo(CodecElems, MaxListLen)
CodecBlobs == SeqsUpTo(BlobBytes, MaxBlobLen)

StoredRow(data) ==
    [channel_id |-> "A", hash |-> <<1>>, parent_hashes |-> data,
     height |-> 0, blob |-> "d1"]

InitCodec ==
    /\ \/ codecList \in CodecLists /\ codecBlob = <<>>
       \/ codecList = <<>> /\ codecBlob \in CodecBlobs
    /\ codecOut = [op |-> "none", error |-> NoError, list |-> <<>>]
    /\ messages = {StoredRow(codecBlob)}
    /\ parents = {}
    /\ entities = {}
    /\ inTransaction = FALSE
    /\ alive = TRUE
    /\ result = "none"
    /\ queue = <<>>
    /\ running = {}
    /\ locked = FALSE
    /\ calls = <<>>
    /\ done = {}
    /\ pgMode = "idle"
    /\ pgChannel = "A"
    /\ pgLimit = 0
    /\ pgCursor = {}
    /\ pgAnchor = {}
    /\ pgWindows = <<>>

\* encodeHashList(codecList)
EncodeList ==
    /\ codecOut.op = "none"
    /\ IF encodeThrows(codecList)
       THEN /\ codecOut' = [op |-> "encode", error |-> "Invalid hash", list |-> <<>>]
            /\ UNCHANGED codecBlob
       ELSE /\ codecOut' = [op |-> "encode", error |-> NoError, list |-> <<>>]
            /\ codecBlob' = encodeHashList(codecList)
    /\ UNCHANGED <<codecList, storeVars, alive, result, driverVars, pageVars>>

\* decodeHashList(codecBlob), of a given blob or of the one just encoded
DecodeBlob ==
    /\ codecOut.op \in {"none", "encode"}
    /\ codecOut.error = NoError
    /\ codecOut' = [op |-> IF codecOut.op = "encode" THEN "decodeEncoded" ELSE "decode",
                    error |-> NoError,
                    list |-> decodeHashList(codecBlob)]
    /\ UNCHANGED <<codecList, codecBlob, storeVars, alive, result, driverVars, pageVars>>

\* query over the stored row: the parents it reports
QueryStored ==
    /\ codecOut.op = "none"
    /\ LET r == query("A", HeightCursor(0), FALSE, 1)
       IN  codecOut' = [op |-> "query", error |-> r.error,
                        list |-> r.abbreviatedMessages[1].parents]
    /\ UNCHANGED <<codecList, codecBlob, storeVars, alive, result, driverVars, pageVars>>

NextCodec ==
    \/ EncodeList
    \/ DecodeBlob
    \/ QueryStored

SpecCodec == InitCodec /\ [][NextCodec]_vars

\* ================================================================== claims
Range(f) == {f[i] : i \in DOMAIN f}

\* the hashes some message stored in channel c lists in its parents
CitedIn(c) ==
    UNION {Range(decodeHashList(r.parent_hashes)) :
              r \in {x \in messages : x.channel_id = c}}

StoredIn(c) == {r.hash : r \in {x \in messages : x.channel_id = c}}

\* C1: in every state reached by completed addMessage and clear calls, a hash
\* stored in channel c is in getLeafHashes(c) if and only if no message stored
\* in c lists it in its parents.
C1_LeafInvariant ==
    \A c \in Channels : \A h \in StoredIn(c) :
        (h \in getLeafHashes(c)) <=> (h \notin CitedIn(c))

\* everything the channel-scoped reads return for channel c
ChannelView(c) ==
    [count |-> getMessageCount(c),
     leaves |-> getLeafHashes(c),
     has |-> [h \in Hashes |-> hasMessage(c, h)],
     get |-> [h \in Hashes |-> getMessage(c, h)],
     atOffset |-> [o \in 0..Cardinality(Hashes) |-> getHashesAtOffset(c, o, MaxLimit)],
     forward |-> [h \in Hashes, l \in 0..MaxLimit |-> query(c, HashCursor(h), FALSE, l)],
     backward |-> [h \in Hashes, l \in 0..MaxLimit |-> query(c, HashCursor(h), TRUE, l)],
     byHeight |-> [n \in Heights, l \in 0..MaxLimit |-> query(c, HeightCursor(n), FALSE, l)]]

\* C2: an addMessage in one channel of a hash no stored message has leaves
\* every read result of every other channel unchanged.
C2_ChannelIsolation ==
    [][\A m \in StoreMessages, survive \in BOOLEAN :
          (AddMessage(m, {}, survive) /\ m.hash \notin {r.hash : r \in messages})
          => \A a \in Channels \ {m.channelId} : ChannelView(a)' = ChannelView(a)]_vars

\* C7: an addMessage with a parent hash longer than 255 bytes reports the
\* encoding error and leaves the relations and the connection's transaction
\* state as they were before the call.
C7_EncodeErrorBeforeAnyWrite ==
    [][\A m \in StoreMessages, survive \in BOOLEAN :
          (AddMessage(m, {}, survive) /\ encodeThrows(m.parents))
          => /\ result' = "Invalid hash"
             /\ storeVars' = storeVars]_vars

\* C10 as stated: unless the step is a clear, a message a channel has stays
\* in that channel and no channel's count decreases.
C10_RemovedOnlyByClear ==
    [][Clear({}) \/
       \A c \in Channels :
          /\ \A h \in Hashes : hasMessage(c, h) => hasMessage(c, h)'
          /\ getMessageCount(c)' >= getMessageCount(c)]_vars

\* C10 amended: unless the step is a clear, a message a channel has stays in
\* that channel or moves to the channel of an addMessage of the same hash; a
\* channel's count decreases only by such a move, and the number of stored
\* messages over all channels never decreases.
C10_RemovedOnlyByClearOrMove ==
    [][Clear({}) \/
       /\ \A c \in Channels :
             /\ \A h \in Hashes :
                   hasMessage(c, h) =>
                      \/ hasMessage(c, h)'
                      \/ \E c2 \in Channels \ {c} : hasMessage(c2, h)'
             /\ getMessageCount(c)' < getMessageCount(c) =>
                   \E h \in Hashes, c2 \in Channels \ {c} :
                      hasMessage(c, h) /\ hasMessage(c2, h)'
       /\ Cardinality(messages') >= Cardinality(messages)]_vars

\* C10 witness: after successful inserts both channels hold a message.
C10_Witness ==
    /\ result = "ok"
    /\ \A c \in Channels : getMessageCount(c) >= 1

\* The REPLACE statements of an addMessage's statement list.
ReplaceIndexes(stmts) ==
    {i \in 1..Len(stmts) : stmts[i].op \in {"REPLACE_MESSAGE", "REPLACE_PARENT"}}

\* C4: when a REPLACE of an addMessage fails (and the process lives on), the
\* messages and parent-reference relations are as before the call and the
\* caller is told of the failure.
C4_RollbackOnFailure ==
    [][\A m \in FailMessages, F \in SUBSET (1..4), survive \in BOOLEAN :
          (/\ AddMessage(m, F, survive)
           /\ F \cap ReplaceIndexes(addMessageStmts(m)) # {}
           /\ alive')
          => /\ messages' = messages
             /\ parents' = parents
             /\ result' \notin {"ok", "none"}]_vars

\* the concatenation of the windows
RECURSIVE Flatten(_)
Flatten(ws) == IF ws = <<>> THEN <<>> ELSE Head(ws) \o Flatten(Tail(ws))

\* the hashes of channel c in (height ASC, hash ASC) order
CanonicalHashes(c) ==
    LET rows == OrderAsc({r \in messages : r.channel_id = c})
    IN  [i \in 1..Len(rows) |-> rows[i].hash]

IsPrefix(s, t) == Len(s) <= Len(t) /\ s = SubSeq(t, 1, Len(s))
IsSuffix(s, t) == Len(s) <= Len(t) /\ s = SubSeq(t, Len(t) - Len(s) + 1, Len(t))

\* C5: the windows of a forward pagination from height 0, concatenated, are
\* at every call a prefix of the channel's messages in canonical order (no
\* duplicate, no gap), and all of them once the forward cursor is null.
C5_ForwardPaginationComplete ==
    /\ pgMode \in {"forward", "forwardDone"} =>
          IsPrefix(Flatten(pgWindows), CanonicalHashes(pgChannel))
    /\ pgMode = "forwardDone" =>
          Flatten(pgWindows) = CanonicalHashes(pgChannel)

\* the hashes of channel c that precede hash a in canonical order
PrecedingHashes(c, a) ==
    LET anchor == CHOOSE r \in messages : r.channel_id = c /\ r.hash = a
        rows == OrderAsc({r \in messages : r.channel_id = c /\ RowBefore(r, anchor)})
    IN  [i \in 1..Len(rows) |-> rows[i].hash]

\* C6: the windows of a backward pagination from anchor a, concatenated from
\* the last to the first, are at every call a suffix of the messages that
\* precede a in canonical order, and all of them once the backward cursor is
\* null.
C6_BackwardPaginationComplete ==
    /\ pgMode \in {"backward", "backwardDone"} =>
          IsSuffix(Flatten(pgWindows), PrecedingHashes(pgChannel, The(pgAnchor)))
    /\ pgMode = "backwardDone" =>
          Flatten(pgWindows) = PrecedingHashes(pgChannel, The(pgAnchor))

\* ------------------------------------------------- claims on unawaited calls
CallsOf(op) == {cid \in 1..Len(calls) : calls[cid].op = op}

\* the statements of call cid that have run and succeeded
Applied(cid) == {d.idx : d \in {x \in done : x.cid = cid /\ x.err = NoError}}

\* the row a REPLACE or the relation a DELETE of a statement list is about
RowPresent(s) ==
    IF s.op = "REPLACE_MESSAGE" THEN s.arg \in messages
    ELSE IF s.op = "REPLACE_PARENT" THEN s.arg \in parents
    ELSE FALSE

RelationOf(s, d) ==
    IF s.op = "DELETE_MESSAGES" THEN d.messages
    ELSE IF s.op = "DELETE_PARENTS" THEN d.parents
    ELSE d.entities

\* the store shows a row of addMessage call cid and lacks another of its rows
PartialAdd(cid) ==
    LET stmts == calls[cid].stmts
        data == ReplaceIndexes(stmts)
    IN  \E i \in data \cap Applied(cid), j \in data \ Applied(cid) :
            RowPresent(stmts[i]) /\ ~RowPresent(stmts[j])

\* the store shows a relation that clear call cid has emptied (it had rows
\* when clear was called) and, in a relation this clear has not emptied,
\* rows that were there when clear was called
PartialClear(cid) ==
    LET stmts == calls[cid].stmts
        before == calls[cid].before
    IN  \E i \in Applied(cid), j \in (1..Len(stmts)) \ Applied(cid) :
            /\ RelationOf(stmts[i], before) # {}
            /\ RelationOf(stmts[i], Db) = {}
            /\ RelationOf(stmts[j], before) \cap RelationOf(stmts[j], Db) # {}

\* the reads that may execute now
RunningReads == {e \in running : e.op = "SELECT"}

\* C3: a read issued while an addMessage is in flight never executes on a
\* store that shows some of that addMessage's rows and lacks others.
C3_InsertAtomicForReaders ==
    alive =>
       \A e \in RunningReads :
          \A cid \in calls[e.cid].during \cap CallsOf("addMessage") : ~PartialAdd(cid)

\* an addMessage call with some but not all of its statements run
Started(cid) == \E d \in done : d.cid = cid
InProgress(cid) == Started(cid) /\ ~Finished(cid)

\* what the awaited calls leave, run one after another in issue order
RECURSIVE InOrder(_, _)
InOrder(cs, d) ==
    IF cs = <<>> THEN d
    ELSE InOrder(Tail(cs), RunAll(Head(cs).stmts, {}, d, TRUE).db)

\* C8: the statement groups of unawaited addMessage calls do not interleave,
\* no BEGIN runs inside another call's open transaction, and when only
\* addMessage calls were issued and all have finished without a storage
\* failure the relations are those of the calls run in issue order.
C8_WritersSerialized ==
    /\ Cardinality({cid \in CallsOf("addMessage") : InProgress(cid)}) <= 1
    /\ \A d \in done : ~(d.op = "BEGIN" /\ d.err = "SQLITE_ERROR")
    /\ (/\ alive /\ Quiescent /\ Failures = 0
        /\ CallsOf("addMessage") = 1..Len(calls))
       => /\ messages = InOrder(calls, EmptyDb).messages
          /\ parents = InOrder(calls, EmptyDb).parents

\* C9: no read issued while a clear is in flight executes on a store with
\* some relations emptied by that clear and others not; a finished clear
\* leaves no such store; and a clear issued while an addMessage was in
\* flight, both finished without a storage failure and nothing else issued,
\* leaves the store empty or with all rows of that addMessage.
C9_ClearAtomic ==
    alive =>
       /\ \A e \in RunningReads :
             \A cid \in calls[e.cid].during \cap CallsOf("clear") : ~PartialClear(cid)
       /\ \A cid \in CallsOf("clear") : Finished(cid) => ~PartialClear(cid)
       /\ (/\ Quiescent /\ Failures = 0 /\ Len(calls) = 2
           /\ calls[1].op = "addMessage" /\ calls[2].op = "clear"
           /\ 1 \in calls[2].during)
          => \/ messages = {} /\ parents = {} /\ entities = {}
             \/ \A i \in ReplaceIndexes(calls[1].stmts) :
                   RowPresent(calls[1].stmts[i])

\* -------------------------------------------- claims on reads after writes
\* C11: no channel has any hash before an insert; hasMessage(c, h) becomes
\* true only by an addMessage of hash h in channel c; while it is false
\* getMessage(c, h) is the absent marker; and right after a completed
\* addMessage(m), whatever the store held, hasMessage(m.channelId, m.hash) is
\* true and getMessage(m.channelId, m.hash) is m's content.
C11_ReadAfterWrite ==
    /\ \A c \in Channels, h \in Hashes : ~hasMessage(c, h)
    /\ [](\A c \in Channels, h \in Hashes :
             ~hasMessage(c, h) => getMessage(c, h) = Undefined)
    /\ [][\A c \in Channels, h \in Hashes :
             (~hasMessage(c, h) /\ hasMessage(c, h)') =>
                \E m \in ContentMessages, survive \in BOOLEAN :
                   AddMessage(m, {}, survive) /\ m.channelId = c /\ m.hash = h]_vars
    /\ [][\A m \in ContentMessages, survive \in BOOLEAN :
             (AddMessage(m, {}, survive) /\ result' = "ok") =>
                /\ hasMessage(m.channelId, m.hash)'
                /\ getMessage(m.channelId, m.hash)' = m.data]_vars

\* C11 witness: a completed addMessage stored content d2 for a hash while
\* the store holds a second message.
C11_Witness ==
    /\ result = "ok"
    /\ Cardinality(messages) = 2
    /\ \E c \in Channels : getMessage(c, <<1>>) = "d2"

\* the rows of channel c
RowsOf(c) == {r \in messages : r.channel_id = c}

\* C12: a channel without messages has no leaves; a completed insert of a
\* root r into a channel without messages makes the leaf set {r} and the
\* count 1; and a completed insert of a child citing r into a channel that
\* holds just the root r, with leaf set {r}, makes the leaf set {child} and
\* the count 2.
C12_RootThenChild ==
    /\ [](\A c \in Channels : getMessageCount(c) = 0 => getLeafHashes(c) = {})
    /\ [][\A m \in StoreMessages, survive \in BOOLEAN :
             (/\ AddMessage(m, {}, survive) /\ result' = "ok"
              /\ getMessageCount(m.channelId) = 0
              /\ m.parents = <<>>)
             => /\ getLeafHashes(m.channelId)' = {m.hash}
                /\ getMessageCount(m.channelId)' = 1]_vars
    /\ [][\A m \in StoreMessages, survive \in BOOLEAN :
             (/\ AddMessage(m, {}, survive) /\ result' = "ok"
              /\ Len(m.parents) = 1
              /\ \E r \in RowsOf(m.channelId) :
                    /\ RowsOf(m.channelId) = {r}
                    /\ r.parent_hashes = <<>>
                    /\ r.hash = m.parents[1]
              /\ getLeafHashes(m.channelId) = {m.parents[1]})
             => /\ getLeafHashes(m.channelId)' = {m.hash}
                /\ getMessageCount(m.channelId)' = 2]_vars

\* the parent-reference rows addMessage(m) writes
ParentRows(m) ==
    {[channel_id |-> m.channelId, hash |-> m.parents[i]] : i \in DOMAIN m.parents}

\* C14: from every store, the statements of addMessage(m) run twice leave
\* what they leave run once; a completed addMessage(m) on a store that has
\* m's rows changes no relation; and after a completed addMessage(m) the
\* messages relation has exactly one row of m.hash, with m's channel,
\* parents, height and content.
C14_IdempotentReinsert ==
    /\ [](\A m \in ContentMessages :
             ~encodeThrows(m.parents) =>
                LET once == RunAll(addMessageStmts(m), {}, Db, TRUE).db
                IN  RunAll(addMessageStmts(m), {}, once, TRUE).db = once)
    /\ [][\A m \in ContentMessages, survive \in BOOLEAN :
             (AddMessage(m, {}, survive) /\ result' = "ok")
             => /\ {r \in messages' : r.hash = m.hash} = {MessageRow(m)}
                /\ (MessageRow(m) \in messages /\ ParentRows(m) \subseteq parents)
                      => (messages' = messages /\ parents' = parents /\
                          entities' = entities)]_vars

\* C14 witness: a completed addMessage, and a parent-reference row that no
\* stored message of its channel cites any more: the citing message was
\* inserted again with other fields.
C14_Witness ==
    /\ result = "ok"
    /\ messages # {}
    /\ \E p \in parents : p.hash \notin CitedIn(p.channel_id)

\* ------------------------------------------------------- claims on query
\* C15: for every channel, height and limit, a backward query with a height
\* cursor reports the unsupported-query error, hands no statement to the
\* driver and leaves the store as it was.
C15_BackwardHeightUnsupported ==
    /\ [](\A c \in Channels, n \in Heights, l \in (-1)..MaxLimit :
             /\ query(c, HeightCursor(n), TRUE, l).error = Unsupported
             /\ queryStmts(HeightCursor(n), TRUE) = <<>>)
    /\ [][\A c \in Channels, n \in Heights, l \in (-1)..MaxLimit :
             Query(c, HeightCursor(n), TRUE, l)
             => /\ result' = Unsupported
                /\ storeVars' = storeVars]_vars

\* C15 witness: a backward query by height was rejected on a store that
\* holds messages.
C15_Witness ==
    /\ result = Unsupported
    /\ messages # {}

\* the number of rows of channel c before row r by (height ASC, hash ASC)
Rank(c, r) ==
    Cardinality({o \in RowsOf(c) :
        \/ o.height < r.height
        \/ (o.height = r.height /\ BlobLess(o.hash, r.hash))})

\* C16: for every channel, offset >= 0 and limit >= 0, getHashesAtOffset
\* returns min(limit, count - offset) hashes (none when offset >= count),
\* the i-th of them the hash of the channel's message that has exactly
\* offset + i - 1 messages of the channel before it by (height, hash).
C16_OffsetSlice ==
    [][\A c \in Channels, o \in 0..MaxOffset, l \in 0..MaxLimit :
          HashesAtOffset(c, o, l)
          => LET res == pgWindows'[1]
             IN  /\ Len(res) = Max(0, Min(l, getMessageCount(c) - o))
                 /\ o >= getMessageCount(c) => res = <<>>
                 /\ \A i \in 1..Len(res) :
                       \E r \in RowsOf(c) :
                          r.hash = res[i] /\ Rank(c, r) = o + i - 1]_vars

\* C16 witness: an offset read returned two hashes that the heights, not the
\* hashes, put in this order.
C16_Witness ==
    /\ pgMode = "offset"
    /\ Len(pgWindows[1]) = 2
    /\ BlobLess(pgWindows[1][2], pgWindows[1][1])

\* ------------------------------------------------- claims on the entities
EntityPairs == EntityPrefixes \X EntityIds

\* C17: no pair is retrievable at first; every relation has at most one row
\* per (prefix, id) and getEntityKeys(p) is the set of ids retrievable under
\* p; a completed storeEntity(p, i, b) makes retrieveEntity(p, i) = b and a
\* completed removeEntity(p, i) makes it absent, changing nothing when it was
\* absent; both leave every other pair and the message relations as they
\* were; and what retrieveEntity(p, i) returns changes by no other call than
\* a storeEntity or removeEntity of (p, i) or a clear.
C17_EntityLastWriteWins ==
    /\ \A pi \in EntityPairs : retrieveEntity(pi[1], pi[2]) = Undefined
    /\ [](/\ \A pi \in EntityPairs :
                Cardinality({r \in entities : r.prefix = pi[1] /\ r.id = pi[2]}) <= 1
          /\ \A p \in EntityPrefixes :
                getEntityKeys(p) =
                   {i \in EntityIds : retrieveEntity(p, i) # Undefined})
    /\ [][\A pi \in EntityPairs, b \in EntityValues, F \in SUBSET (1..1) :
             (StoreEntity(pi[1], pi[2], b, F) /\ result' = "ok")
             => /\ retrieveEntity(pi[1], pi[2])' = b
                /\ \A qj \in EntityPairs \ {pi} :
                      retrieveEntity(qj[1], qj[2])' = retrieveEntity(qj[1], qj[2])
                /\ messages' = messages /\ parents' = parents]_vars
    /\ [][\A pi \in EntityPairs, F \in SUBSET (1..1) :
             (RemoveEntity(pi[1], pi[2], F) /\ result' = "ok")
             => /\ retrieveEntity(pi[1], pi[2])' = Undefined
                /\ retrieveEntity(pi[1], pi[2]) = Undefined => entities' = entities
                /\ \A qj \in EntityPairs \ {pi} :
                      retrieveEntity(qj[1], qj[2])' = retrieveEntity(qj[1], qj[2])
                /\ messages' = messages /\ parents' = parents]_vars
    /\ [][\A pi \in EntityPairs :
             retrieveEntity(pi[1], pi[2])' # retrieveEntity(pi[1], pi[2])
             => \/ \E b \in EntityValues : StoreEntity(pi[1], pi[2], b, {})
                \/ RemoveEntity(pi[1], pi[2], {})
                \/ Clear({})]_vars

\* C13: right after a completed clear, whatever the store held, every
\* channel has count 0 and no leaves, every entity is absent and no prefix
\* has keys.
C13_ClearPostCondition ==
    [][(Clear({}) /\ result' = "ok")
       => /\ \A c \in Channels :
                getMessageCount(c)' = 0 /\ getLeafHashes(c)' = {}
          /\ \A p \in EntityPrefixes :
                /\ getEntityKeys(p)' = {}
                /\ \A i \in EntityIds : retrieveEntity(p, i)' = Undefined]_vars

\* C13 witness: a completed call left all three relations empty inside the
\* transaction an earlier addMessage left open.
C13_Witness ==
    /\ result = "ok"
    /\ inTransaction
    /\ messages = {} /\ parents = {} /\ entities = {}

\* C17 witness: beside a stored message, one pair holds the second blob, a
\* pair of the same prefix is absent and a pair of the other prefix holds the
\* first blob.
C17_Witness ==
    /\ result = "ok"
    /\ messages # {}
    /\ retrieveEntity("identity", "k1") = "e2"
    /\ retrieveEntity("identity", "k2") = Undefined
    /\ retrieveEntity("channel", "k1") = "e1"

\* --------------------------------------------------- claims on the codec
RECURSIVE SumLen(_)
SumLen(list) == IF list = <<>> THEN 0 ELSE 1 + Len(Head(list)) + SumLen(Tail(list))

\* C18: encoding a list whose elements have at most 255 bytes succeeds with
\* a blob of (1 + element length) bytes per element, and decoding that blob
\* gives the list back, element for element in the same order.
C18_CodecRoundTrip ==
    /\ (codecOut.op = "encode" /\ \A i \in DOMAIN codecList : Len(codecList[i]) <= 255)
          => /\ codecOut.error = NoError
             /\ Len(codecBlob) = SumLen(codecList)
    /\ codecOut.op = "decodeEncoded"
          => /\ codecOut.error = NoError
             /\ codecOut.list = codecList

\* C18 witness: a round trip of a list with an empty element and a 255-byte
\* element.
C18_Witness ==
    /\ codecOut.op = "decodeEncoded"
    /\ Len(codecList) = 2
    /\ codecList[1] = <<>>
    /\ Len(codecList[2]) = 255

\* some length prefix of the blob declares more bytes than remain
RECURSIVE TruncatedFrom(_, _)
TruncatedFrom(data, offset) ==
    IF offset >= Len(data) THEN FALSE
    ELSE LET len == data[offset + 1]
         IN  offset + 1 + len > Len(data) \/ TruncatedFrom(data, offset + 1 + len)

\* C19: decodeHashList of a blob with a length prefix that declares more
\* bytes than remain reports an error, and so does the query that reads a
\* row holding such a blob.
C19_DecodeRejectsTruncated ==
    /\ (codecOut.op = "decode" /\ TruncatedFrom(codecBlob, 0))
          => codecOut.error # NoError
    /\ (codecOut.op = "query" /\ TruncatedFrom(codecBlob, 0))
          => codecOut.error # NoError

\* ------------------------------------------------ claims on query's window
\* the rows of channel c the WHERE clause of the query selects
Matched(c, cursor, isBackward) ==
    IF cursor.hash = Null THEN {r \in RowsOf(c) : r.height >= cursor.height}
    ELSE IF isBackward THEN {r \in RowsOf(c) : BlobLess(r.hash, The(cursor.hash))}
    ELSE {r \in RowsOf(c) : ~BlobLess(r.hash, The(cursor.hash))}

\* the rows of rows that come before r by (height ASC, hash ASC)
Before(rows, r) ==
    {o \in rows : \/ o.height < r.height
                  \/ (o.height = r.height /\ BlobLess(o.hash, r.hash))}

\* C20: a query that succeeds returns at most max(0, limit) entries and,
\* with a negative limit, what it returns with limit 0; forward, forwardHash
\* is non-null exactly when at least limit + 1 rows matched and is then the
\* hash of the matched row number limit + 1, which the window leaves out;
\* backward, backwardHash is non-null exactly when at least limit + 1 rows
\* matched and forwardHash is the anchor.
C20_WindowBoundAndCursors ==
    [][\A c \in Channels, cursor \in Cursors, b \in BOOLEAN, l \in (-1)..MaxLimit :
          (Query(c, cursor, b, l) /\ result' = "ok")
          => LET window == pgWindows'[1]
                 forwardHash == pgCursor'
                 backwardHash == pgAnchor'
                 lim == IF l < 0 THEN 0 ELSE l
                 matched == Matched(c, cursor, b)
                 zero == query(c, cursor, b, 0)
             IN  /\ Len(window) <= lim
                 /\ l < 0 => /\ window = WindowHashes(zero)
                             /\ forwardHash = zero.forwardHash
                             /\ backwardHash = zero.backwardHash
                 /\ ~b => /\ forwardHash # Null <=> Cardinality(matched) >= lim + 1
                          /\ forwardHash # Null =>
                                /\ \E r \in matched :
                                      /\ r.hash = The(forwardHash)
                                      /\ Cardinality(Before(matched, r)) = lim
                                /\ The(forwardHash) \notin Range(window)
                                /\ Len(window) = lim
                 /\ b => /\ backwardHash # Null <=> Cardinality(matched) >= lim + 1
                         /\ forwardHash = cursor.hash]_vars

\* C20 witness: a query returned a full window of two entries and both
\* cursors.
C20_Witness ==
    /\ pgMode = "query"
    /\ result = "ok"
    /\ Len(pgWindows[1]) = 2
    /\ pgCursor # Null
    /\ pgAnchor # Null

====
